---- MODULE Spec2Model ----
(***************************************************************************)
(* VirtIO split virtual queue of kvm/virtio/queue.go (Descriptor,          *)
(* Available, Used, VirtualQueue) together with a simulated device that    *)
(* works on the queue block through the addresses returned by Address().   *)
(*                                                                         *)
(* DMA memory is modelled as byte sequences: byte offset o of a block is   *)
(* element o + 1 of the sequence.  Every driver access to DMA memory is a  *)
(* step of its own, so the device can run between any two of them.         *)
(***************************************************************************)
EXTENDS Integers, Sequences, FiniteSets, TLC

\* ------------------------------------------------------------------ bounds
\* largest queue size given to Init
MaxSize == 2
\* largest descriptor buffer length given to Init
MaxLength == 3
\* number of Push calls and of Pop calls that find a completion
MaxCalls == 3

\* --------------------------------------------------------- program constants
\* Descriptor Flags (queue.go:20-24)
Write == 2

\* uint16 arithmetic wraps at 2^16 (the 32 and 64 bit fields of the model
\* hold lengths and addresses far below their width)
U16 == 65536

\* physical addresses handed out by dma.Reserve for the descriptor buffers
\* and for the queue block (the latter 16 bytes aligned)
RegionBase == 4096
BlockBase == 8192

\* byte the callers fill their payloads with: 0xAB
PayloadByte == 16 * 10 + 11

Callers == {1, 2}
Sizes == 1..MaxSize
Lengths == {1, MaxLength}

\* bytes the DMA allocator has free when the program starts: none, enough
\* for the descriptor buffers only, enough for a whole queue
Capacities == {0, 16, 1024}
InitFlags == {0, Write}

\* bit of the MSI-X configuration register that enables the table
\* (msix.go:18)
msixEnable == 31

\* largest MSI-X table of the model
MaxTable == 4

\* values of the Message Control register: table sizes 1 and MaxTable, the
\* latter also with a bit above the 11 bits of the size field set
MessageControls == {0, MaxTable - 1, 2048 + MaxTable - 1}

\* entry numbers given to EnableInterrupt
EntryNumbers == (-1)..(MaxTable + 1)

\* message addresses and data given to EnableInterrupt
MessageAddresses == {4096}
MessageData == {32}

\* largest queue size of a split virtqueue
MaxCapacity == 32768

\* descriptor indices and ring positions given to the accessors: the first
\* and the last two of every 1024
Positions == {j * 1024 + d : j \in 0..((MaxCapacity \div 1024) - 1),
                             d \in {0, 1022, 1023}}

\* a nil slice, and a slice of len bytes starting at byte off of its block
NilView == [off |-> 0, len |-> 0]
View(off, len) == [off |-> off, len |-> len]

Min(a, b) == IF a < b THEN a ELSE b
Max(a, b) == IF a > b THEN a ELSE b

\* ------------------------------------------------------ encoding/binary
\* little-endian bytes of v, n of them (binary.Write, PutUint16, PutUint32)
RECURSIVE LE(_, _)
LE(v, n) == IF n = 0 THEN <<>> ELSE <<v % 256>> \o LE(v \div 256, n - 1)

RECURSIVE FromLE(_)
FromLE(bs) == IF bs = <<>> THEN 0 ELSE bs[1] + 256 * FromLE(Tail(bs))

\* b[off:] must be a valid slice of at least n bytes
InRange(view, off, n) == off + n <= view.len

\* binary.LittleEndian.Uint16(b[off:]) and friends on a view of memory mem
GetLE(mem, view, off, n) ==
    FromLE([i \in 1..n |-> mem[view.off + off + i]])

\* binary.LittleEndian.PutUint16(b[off:], v) and friends
PutLE(mem, view, off, n, v) ==
    [j \in DOMAIN mem |->
        IF j > view.off + off /\ j <= view.off + off + n
        THEN LE(v, n)[j - view.off - off]
        ELSE mem[j]]

\* copy(dst, src) where dst is a view of mem: min(len(dst), len(src)) bytes
CopyIn(mem, view, src) ==
    [j \in DOMAIN mem |->
        IF j > view.off /\ j <= view.off + Min(view.len, Len(src))
        THEN src[j - view.off]
        ELSE mem[j]]

\* copy(dst, src) where dst is a fresh (zeroed) buffer of n bytes
CopyOut(n, mem, view) ==
    [i \in 1..n |-> IF i <= view.len THEN mem[view.off + i] ELSE 0]

Zeroes(n) == [i \in 1..n |-> 0]

RECURSIVE Concat(_)
Concat(seqs) == IF seqs = <<>> THEN <<>> ELSE Head(seqs) \o Concat(Tail(seqs))

\* ----------------------------------------------------------------- state
VARIABLES
    q,        \* the VirtualQueue struct (Go memory)
    blk,      \* DMA memory of the queue block (d.buf)
    region,   \* DMA memory of the descriptor buffers
    lock,     \* sync.Mutex of the queue: 0 (free) or the caller holding it
    pc,       \* position of each caller
    loc,      \* local variables of the call that holds the lock
    ret,      \* what the last call returned: "void", "nil" or "buf"
    devLast,  \* device: number of Available entries it has consumed
    pushed,   \* history: the buffers given to Push, in order
    popped,   \* history: the buffers returned by Pop, in order
    peak,     \* history: largest number of buffers pushed and not yet popped
    crashed,  \* a run-time panic ended the program
    dma,      \* the DMA allocator: reserved allocations, free bytes
    destroy,  \* position of the caller of Destroy
    desc,     \* a Descriptor bound by a caller of its own
    msix,     \* the CapabilityMSIX struct
    pcidev,   \* the PCI device: its MSI-X table and configuration space
    probe     \* the last byte offset computed by an accessor, with its inputs

vars == <<q, blk, region, lock, pc, loc, ret, devLast, pushed, popped, peak,
          crashed, dma, destroy, desc, msix, pcidev, probe>>

\* no accessor has computed an offset
NoProbe == [op |-> "none", size |-> 0, arg |-> 0, off |-> 0]

\* the zero value of the structs
ZeroCapability == [MessageControl |-> 0, TableOffset |-> 0, PBAOffset |-> 0,
                   device |-> FALSE, off |-> 0]

\* the device before any write: no table entry written (also none outside
\* the table), no configuration register written
ZeroDevice == [table |-> [n \in EntryNumbers |-> <<>>], config |-> {}]
ZeroDescriptor == [Address |-> 0, length |-> 0, Flags |-> 0, Next |-> 0,
                   buf |-> NilView]
ZeroAvailable == [Flags |-> 0, index |-> 0, ring |-> <<>>, EventIndex |-> 0,
                  buf |-> NilView]
ZeroUsed == [Flags |-> 0, index |-> 0, ring |-> <<>>, AvailEvent |-> 0,
             buf |-> NilView, last |-> 0]
ZeroQueue == [Descriptors |-> <<>>, Available |-> ZeroAvailable,
              Used |-> ZeroUsed, buf |-> NilView,
              desc |-> 0, driver |-> 0, device |-> 0, size |-> 0]

NoLocals == [buf |-> <<>>, index |-> 0, used |-> 0, i |-> 0,
             avail |-> [Index |-> 0, Length |-> 0], out |-> <<>>]

Init ==
    /\ q = ZeroQueue
    /\ blk = <<>>
    /\ region = <<>>
    /\ lock = 0
    /\ pc = [t \in Callers |-> "idle"]
    /\ loc = NoLocals
    /\ ret = "none"
    /\ devLast = 0
    /\ pushed = <<>>
    /\ popped = <<>>
    /\ peak = 0
    /\ crashed = FALSE
    /\ dma \in {[used |-> {}, free |-> c, failed |-> FALSE] : c \in Capacities}
    /\ destroy = [pc |-> "idle", i |-> 0]
    /\ desc = ZeroDescriptor
    /\ msix = ZeroCapability
    /\ pcidev = ZeroDevice
    /\ probe = NoProbe

\* ------------------------------------------------------- DMA allocator
\* The allocator (package dma) is used through reserve(size, alignment),
\* release(physicalAddress) and boundBuffer(byteView).  Its state: the
\* reserved allocations (address and size), the bytes still free, and
\* whether it has refused a reservation.

\* dma.Reserve can satisfy a reservation of size bytes
DmaFits(a, size) == size <= a.free

\* the allocator after dma.Reserve handed out size bytes at addr
DmaReserve(a, addr, size) ==
    [a EXCEPT !.used = @ \cup {[addr |-> addr, size |-> size]},
              !.free = @ - size]

\* the allocator after a reservation it could not satisfy
DmaRefuse(a) == [a EXCEPT !.failed = TRUE]

\* the allocator after dma.Release(addr): the allocation starting at addr is
\* returned; an address that starts no allocation releases nothing
DmaRelease(a, addr) ==
    LET hit == {b \in a.used : b.addr = addr}
    IN IF hit = {} THEN a
       ELSE [a EXCEPT !.used = @ \ hit,
                      !.free = @ + (CHOOSE b \in hit : TRUE).size]

\* the region of the descriptor buffers is reserved
RegionReserved == \E b \in dma.used : b.addr = RegionBase

\* the queue block is reserved
BlockReserved == \E b \in dma.used : b.addr = BlockBase

\* what dma.Reserve does when it cannot satisfy a reservation: it panics, or
\* it returns a zero address with a nil slice
Exhaustion == {"panic", "nil"}

\* d.Lock() returns only when no other call holds the mutex of the queue
LockUnguarded == TRUE
Lock == lock = 0

\* ------------------------------------------------------------ Descriptor
\* Descriptor.Bytes: address, length, flags, next, little-endian
DescriptorBytes(d) ==
    LE(d.Address, 8) \o LE(d.length, 4) \o LE(d.Flags, 2) \o LE(d.Next, 2)

\* Descriptor.Destroy: the address given to dma.Release
DescriptorDestroyAddress(d) == d.Address

\* Descriptor.Init on the slice buf[off:off+length] of the reserved region:
\* dma.Reserved yields the slice's physical address
DescriptorInit(off, length, flags) ==
    [Address |-> RegionBase + off, length |-> length, Flags |-> flags,
     Next |-> 0, buf |-> View(off, length)]

\* Descriptor.Init on descriptor d with any buffer: res is what dma.Reserved
\* says of it; a buffer that is not reserved leaves d as it was
DescriptorInitOn(d, res, off, length, flags) ==
    IF ~res THEN d
    ELSE [DescriptorInit(off, length, flags) EXCEPT !.Next = d.Next]

\* A caller of its own reserves n bytes of DMA memory for a descriptor.
ReserveBuffer(n) ==
    /\ ~crashed
    /\ q = ZeroQueue
    /\ region = <<>>
    /\ DmaFits(dma, n)
    /\ dma' = DmaReserve(dma, RegionBase, n)
    /\ region' = Zeroes(n)
    /\ UNCHANGED <<probe, pcidev, msix, q, blk, lock, pc, loc, ret, devLast, pushed, popped, peak,
                   crashed, destroy, desc>>

\* desc.Init(buf, flags): buf is the slice [off, off+length) of the reserved
\* memory (res) or a slice of length bytes of ordinary memory (~res)
DescriptorInitCall(res, off, length, flags) ==
    /\ ~crashed
    /\ q = ZeroQueue
    /\ res => (RegionReserved /\ off + length <= Len(region))
    /\ ~res => off = 0
    /\ desc' = DescriptorInitOn(desc, res, off, length, flags)
    /\ ret' = "void"
    /\ UNCHANGED <<probe, pcidev, msix, q, blk, region, lock, pc, loc, devLast, pushed, popped,
                   peak, crashed, dma, destroy>>

\* desc.Write(b): d.length = uint32(len(b)); copy(d.buf, b)
DescriptorWriteCall(b) ==
    /\ ~crashed
    /\ q = ZeroQueue
    /\ desc' = [desc EXCEPT !.length = Len(b)]
    /\ region' = CopyIn(region, desc.buf, b)
    /\ ret' = "void"
    /\ UNCHANGED <<probe, pcidev, msix, q, blk, lock, pc, loc, devLast, pushed, popped, peak,
                   crashed, dma, destroy>>

\* desc.Read(b) with b of n bytes: copy(b, d.buf)
DescriptorReadCall(n) ==
    /\ ~crashed
    /\ q = ZeroQueue
    /\ loc' = [loc EXCEPT !.out = CopyOut(n, region, desc.buf)]
    /\ ret' = "void"
    /\ UNCHANGED <<probe, pcidev, msix, q, blk, region, lock, pc, devLast, pushed, popped, peak,
                   crashed, dma, destroy, desc>>

\* desc.Destroy(): dma.Release(uint(d.Address))
DescriptorDestroyCall ==
    /\ ~crashed
    /\ q = ZeroQueue
    /\ dma' = DmaRelease(dma, DescriptorDestroyAddress(desc))
    /\ ret' = "void"
    /\ UNCHANGED <<probe, pcidev, msix, q, blk, region, lock, pc, loc, devLast, pushed, popped,
                   peak, crashed, destroy, desc>>

\* ------------------------------------------------------------- Available
AvailableBytes(a) ==
    LE(a.Flags, 2) \o LE(a.index, 2)
        \o Concat([n \in 1..Len(a.ring) |-> LE(a.ring[n], 2)])
        \o LE(a.EventIndex, 2)

\* ------------------------------------------------------------------ Used
RingBytes(r) == LE(r.Index, 4) \o LE(r.Length, 4)

UsedBytes(u) ==
    LE(u.Flags, 2) \o LE(u.index, 2)
        \o Concat([n \in 1..Len(u.ring) |-> RingBytes(u.ring[n])])
        \o LE(u.AvailEvent, 2)

\* ---------------------------------------------------------- VirtualQueue
\* padding written after the Available ring when the image is n bytes long
PaddingNone(n) == 0
Padding(n) == IF n % 4 # 0 THEN 4 - (n % 4) ELSE 0

\* VirtualQueue.Bytes: the image and the driver and device area offsets
VirtualQueueBytes(d) ==
    LET descs == Concat([k \in 1..Len(d.Descriptors) |->
                            DescriptorBytes(d.Descriptors[k])])
        driver == Len(descs)
        avail == descs \o AvailableBytes(d.Available)
        padded == avail \o Zeroes(Padding(Len(avail)))
        device == Len(padded)
    IN [buf |-> padded \o UsedBytes(d.Used), driver |-> driver,
        device |-> device]

\* offset of descriptor i's buffer in the region reserved by Init
BufferOffset(size, i) == size * i

\* number of loop iterations of Init that complete: slicing
\* buf[off:off+length] panics when it exceeds the size*length bytes reserved
InitBuilt(size, length) ==
    Cardinality({i \in 0..(size - 1) :
        \A j \in 0..i : BufferOffset(size, j) + length <= size * length})

\* index of the Available ring set by Init
InitIndexUnconditional(size, flags) == size % U16
InitIndex(size, flags) == IF flags = Write THEN size % U16 ELSE 0

\* the queue struct after the loop of Init ran n iterations
InitLoop(d, size, length, flags, n) ==
    [d EXCEPT
        !.Descriptors = d.Descriptors \o
            [i \in 1..n |-> DescriptorInit(BufferOffset(size, i - 1), length, flags)],
        !.Available.ring = d.Available.ring \o [i \in 1..n |-> (i - 1) % U16],
        !.Used.ring = d.Used.ring \o [i \in 1..n |-> [Index |-> 0, Length |-> 0]]]

VirtualQueueInit(size, length, flags) ==
    /\ ~crashed
    /\ Lock
    /\ q = ZeroQueue
    /\ \E oom \in Exhaustion :
       IF ~DmaFits(dma, size * length)
       THEN \* no region: dma.Reserve panics, or buf[off:off+length] of the
            \* nil slice does; the deferred Unlock runs
            /\ dma' = DmaRefuse(dma)
            /\ crashed' = TRUE
            /\ UNCHANGED <<q, blk, region>>
       ELSE
       LET reserved == DmaReserve(dma, RegionBase, size * length)
           n == InitBuilt(size, length)
           looped == InitLoop(q, size, length, flags, n)
       IN IF n < size
          THEN \* panic: slice bounds out of range; the deferred Unlock runs
               /\ q' = looped
               /\ region' = Zeroes(size * length)
               /\ dma' = reserved
               /\ crashed' = TRUE
               /\ UNCHANGED blk
          ELSE LET indexed == [looped EXCEPT
                                  !.Available.index = InitIndex(size, flags)]
                   img == VirtualQueueBytes(indexed)
               IN IF ~DmaFits(reserved, Len(img.buf))
                  THEN \* no block: dma.Reserve panics, or d.buf[driver:device]
                       \* of the nil slice does after the areas were computed
                       /\ region' = Zeroes(size * length)
                       /\ dma' = DmaRefuse(reserved)
                       /\ q' = IF oom = "panic"
                               THEN indexed
                               ELSE [indexed EXCEPT
                                        !.driver = img.driver,
                                        !.device = img.device,
                                        !.size = size % U16]
                       /\ crashed' = TRUE
                       /\ UNCHANGED blk
                  ELSE
                  /\ region' = Zeroes(size * length)
                  /\ dma' = DmaReserve(reserved, BlockBase, Len(img.buf))
                  /\ blk' = img.buf
                  /\ q' = [indexed EXCEPT
                              !.buf = View(0, Len(img.buf)),
                              !.desc = BlockBase,
                              !.driver = BlockBase + img.driver,
                              !.device = BlockBase + img.device,
                              !.size = size % U16,
                              !.Available.buf =
                                  View(img.driver, img.device - img.driver),
                              !.Used.buf =
                                  View(img.device, Len(img.buf) - img.device)]
                  /\ UNCHANGED crashed
    /\ UNCHANGED <<probe, pcidev, msix, desc, destroy, lock, pc, loc, ret, devLast, pushed, popped, peak>>

\* VirtualQueue.Address
Address == <<q.desc, q.driver, q.device>>

\* Init has returned: the block is in place and the size is set
Initialised == q.size > 0 /\ q.buf # NilView

\* the buffers callers push: one byte, and one byte more than any descriptor
\* buffer holds
Payloads == {[i \in 1..n |-> PayloadByte] : n \in {1, MaxLength + 1}}


\* a panic: the deferred Unlock runs and the program ends
Panic(t) ==
    /\ crashed' = TRUE
    /\ lock' = 0
    /\ pc' = [pc EXCEPT ![t] = "panic"]

\* return from Pop or Push: the deferred Unlock runs
Return(t, value) ==
    /\ lock' = 0
    /\ pc' = [pc EXCEPT ![t] = "idle"]
    /\ loc' = NoLocals
    /\ ret' = value

\* ------------------------------------------------- ring accessors
\* byte offset computed in uint16 arithmetic by Available.Ring and
\* Available.SetRingIndex
AvailableRingOffset(n) == (4 + n * 2) % U16

\* byte offset computed in uint16 arithmetic by Used.Ring
UsedRingOffset(n) == (4 + n * 8) % U16

\* Available.SetIndex: the index field at offset 2 of the driver area
AvailableSetIndex(mem, a, index) == PutLE(mem, a.buf, 2, 2, index)

\* Available.Ring: the slot at position n, read from DMA memory
AvailableRing(mem, a, n) == GetLE(mem, a.buf, AvailableRingOffset(n), 2)

\* Available.SetRingIndex: DMA memory after the slot at position n is written
AvailableSetRingIndex(mem, a, n, index) ==
    PutLE(mem, a.buf, AvailableRingOffset(n), 2, index)

\* Used.Index: the index field at offset 2 of the device area
UsedIndex(mem, u) == GetLE(mem, u.buf, 2, 2)

\* Used.Ring: the (Index, Length) pair decoded at position n
UsedRing(mem, u, n) ==
    [Index |-> GetLE(mem, u.buf, UsedRingOffset(n), 4),
     Length |-> GetLE(mem, u.buf, UsedRingOffset(n) + 4, 4)]

\* Available.SetIndex panics: d.buf[off:] of a view shorter than the field
AvailableSetIndexPanics(a) == ~InRange(a.buf, 2, 2)

\* Available.Ring and Available.SetRingIndex panic: slice bounds or index
\* out of range
AvailableRingPanics(a, n) ==
    \/ ~InRange(a.buf, AvailableRingOffset(n), 2)
    \/ n >= Len(a.ring)

\* Used.Index panics: d.buf[off:] of a view shorter than the field
UsedIndexPanics(u) == ~InRange(u.buf, 2, 2)

\* Used.Ring panics: slice bounds or index out of range
UsedRingPanics(u, n) ==
    \/ ~InRange(u.buf, UsedRingOffset(n), 8)
    \/ n >= Len(u.ring)

\* ------------------------------------------------------------------- Pop
\* ring position of the Used entry Pop reads
PopUsedPosition(d) == d.Used.last % d.size

\* ring position of the Available slot Pop writes (the index was advanced)
PopAvailablePosition(d) == d.Available.index % d.size

\* the test of Pop for "nothing to return": d.Used.Index() == d.Used.last
PopNothingUsedOffByOne(d, index) == index < d.Used.last
PopNothingUsed(d, index) == index = d.Used.last

\* Pop: Lock, then d.Used.Index() == d.Used.last
PopBegin(t) ==
    /\ ~crashed
    /\ pc[t] = "idle"
    /\ Lock
    /\ Len(pushed) + Len(popped) < MaxCalls
    /\ IF ~InRange(q.Used.buf, 2, 2)
       THEN /\ Panic(t)
            /\ UNCHANGED <<q, loc, ret>>
       ELSE LET index == UsedIndex(blk, q.Used)
            IN /\ q' = [q EXCEPT !.Used.index = index]
               /\ IF PopNothingUsed(q, index)
                  THEN Return(t, "nil")
                  ELSE /\ lock' = t
                       /\ pc' = [pc EXCEPT ![t] = "pop_read"]
                       /\ ret' = "none"
                       /\ UNCHANGED loc
               /\ UNCHANGED crashed
    /\ UNCHANGED <<probe, pcidev, msix, desc, destroy, dma, blk, region, devLast, pushed, popped, peak>>

\* avail := d.Used.Ring(d.Used.last % d.size); buf = make([]byte, avail.Length)
\* d.Descriptors[avail.Index].Read(buf); d.Available.index += 1
PopRead(t) ==
    /\ ~crashed
    /\ pc[t] = "pop_read"
    /\ LET n == PopUsedPosition(q)
           avail == UsedRing(blk, q.Used, n)
       IN IF UsedRingPanics(q.Used, n) \/ avail.Index >= Len(q.Descriptors)
          THEN /\ Panic(t)
               /\ UNCHANGED <<q, loc>>
          ELSE /\ q' = [q EXCEPT
                           !.Used.ring[n + 1] = avail,
                           !.Available.index = (q.Available.index + 1) % U16]
               /\ loc' = [loc EXCEPT
                           !.avail = avail,
                           !.out = CopyOut(avail.Length, region,
                                        q.Descriptors[avail.Index + 1].buf)]
               /\ pc' = [pc EXCEPT ![t] = "pop_ring"]
               /\ UNCHANGED <<lock, crashed>>
    /\ UNCHANGED <<probe, pcidev, msix, desc, destroy, dma, blk, region, ret, devLast, pushed, popped, peak>>

\* d.Available.SetRingIndex(d.Available.index%d.size, uint16(avail.Index))
PopSetRingIndex(t) ==
    /\ ~crashed
    /\ pc[t] = "pop_ring"
    /\ LET n == PopAvailablePosition(q)
           index == loc.avail.Index % U16
       IN IF AvailableRingPanics(q.Available, n)
          THEN /\ Panic(t)
               /\ UNCHANGED <<q, blk>>
          ELSE /\ blk' = AvailableSetRingIndex(blk, q.Available, n, index)
               /\ q' = [q EXCEPT !.Available.ring[n + 1] = index]
               /\ pc' = [pc EXCEPT ![t] = "pop_index"]
               /\ UNCHANGED <<lock, crashed>>
    /\ UNCHANGED <<probe, pcidev, msix, desc, destroy, dma, region, loc, ret, devLast, pushed, popped,
                   peak>>

\* d.Available.SetIndex(d.Available.index); d.Used.last += 1; return
PopSetIndex(t) ==
    /\ ~crashed
    /\ pc[t] = "pop_index"
    /\ IF AvailableSetIndexPanics(q.Available)
       THEN /\ Panic(t)
            /\ UNCHANGED <<q, blk, loc, ret, popped>>
       ELSE /\ blk' = AvailableSetIndex(blk, q.Available, q.Available.index)
            /\ q' = [q EXCEPT !.Used.last = (q.Used.last + 1) % U16]
            /\ popped' = Append(popped, loc.out)
            /\ Return(t, "buf")
            /\ UNCHANGED crashed
    /\ UNCHANGED <<probe, pcidev, msix, desc, destroy, dma, region, devLast, pushed, peak>>

\* ------------------------------------------------------------------ Push
\* ring position of the Available slot Push claims its descriptor from
PushClaimPosition(d) == d.Available.index % d.size

\* byte offset in the queue block of descriptor index's length field,
\* computed in uint16 arithmetic
PushLengthOffset(index) == (8 + index * 16) % U16

\* position of the Used ring read by the loop of Push in iteration i
PushUsedPosition(d, i) == i - 1

\* position of the Available slot written by the loop of Push
PushRecyclePosition(d) == d.Available.index % d.size

\* Push: Lock; index := d.Available.Ring(d.Available.index % d.size)
\* used := d.Used.Index() - d.Used.last
PushBegin(t, b) ==
    /\ ~crashed
    /\ pc[t] = "idle"
    /\ Lock
    /\ Len(pushed) + Len(popped) < MaxCalls
    /\ pushed' = Append(pushed, b)
    /\ peak' = Max(peak, Len(pushed) + 1 - Len(popped))
    /\ IF \/ q.size = 0
          \/ AvailableRingPanics(q.Available, PushClaimPosition(q))
          \/ UsedIndexPanics(q.Used)
       THEN \* integer divide by zero, or slice bounds out of range
            /\ Panic(t)
            /\ UNCHANGED <<q, loc, ret>>
       ELSE LET n == PushClaimPosition(q)
                index == AvailableRing(blk, q.Available, n)
                uidx == UsedIndex(blk, q.Used)
            IN /\ q' = [q EXCEPT !.Available.ring[n + 1] = index,
                                 !.Used.index = uidx]
               /\ loc' = [loc EXCEPT
                            !.buf = b,
                            !.index = index,
                            !.used = (uidx - q.Used.last) % U16]
               /\ lock' = t
               /\ pc' = [pc EXCEPT ![t] = "push_length"]
               /\ ret' = "none"
               /\ UNCHANGED crashed
    /\ UNCHANGED <<probe, pcidev, msix, desc, destroy, dma, blk, region, devLast, popped>>

\* off := 8 + index*16; binary.LittleEndian.PutUint32(d.buf[off:], len(buf))
PushLength(t) ==
    /\ ~crashed
    /\ pc[t] = "push_length"
    /\ LET off == PushLengthOffset(loc.index)
       IN IF ~InRange(q.buf, off, 4)
          THEN /\ Panic(t)
               /\ UNCHANGED blk
          ELSE /\ blk' = PutLE(blk, q.buf, off, 4, Len(loc.buf))
               /\ pc' = [pc EXCEPT ![t] = "push_write"]
               /\ UNCHANGED <<lock, crashed>>
    /\ UNCHANGED <<probe, pcidev, msix, desc, destroy, dma, q, region, loc, ret, devLast, pushed, popped, peak>>

\* d.Descriptors[index].Write(buf): d.length = len(b); copy(d.buf, b)
PushWrite(t) ==
    /\ ~crashed
    /\ pc[t] = "push_write"
    /\ LET index == loc.index
       IN IF index >= Len(q.Descriptors)
          THEN /\ Panic(t)
               /\ UNCHANGED <<q, region>>
          ELSE /\ q' = [q EXCEPT
                          !.Descriptors[index + 1].length = Len(loc.buf)]
               /\ region' = CopyIn(region, q.Descriptors[index + 1].buf,
                                   loc.buf)
               /\ pc' = [pc EXCEPT ![t] = "push_index"]
               /\ UNCHANGED <<lock, crashed>>
    /\ UNCHANGED <<probe, pcidev, msix, desc, destroy, dma, blk, loc, ret, devLast, pushed, popped, peak>>

\* d.Available.SetIndex(d.Available.index + 1); i := used
PushSetIndex(t) ==
    /\ ~crashed
    /\ pc[t] = "push_index"
    /\ LET index == (q.Available.index + 1) % U16
       IN IF AvailableSetIndexPanics(q.Available)
          THEN /\ Panic(t)
               /\ UNCHANGED <<q, blk, loc>>
          ELSE /\ blk' = AvailableSetIndex(blk, q.Available, index)
               /\ q' = [q EXCEPT !.Available.index = index]
               /\ loc' = [loc EXCEPT !.i = loc.used]
               /\ pc' = [pc EXCEPT ![t] = "push_loop"]
               /\ UNCHANGED <<lock, crashed>>
    /\ UNCHANGED <<probe, pcidev, msix, desc, destroy, dma, region, ret, devLast, pushed, popped, peak>>

\* one iteration of: for i := used; i > 0; i-- {
\*   n := d.Available.index % d.size; avail := d.Used.Ring(i - 1)
\*   d.Available.SetRingIndex(n, uint16(avail.Index)) }
PushRecycle(t) ==
    /\ ~crashed
    /\ pc[t] = "push_loop"
    /\ loc.i > 0
    /\ LET n == PushRecyclePosition(q)
           m == PushUsedPosition(q, loc.i)
           avail == UsedRing(blk, q.Used, m)
           index == avail.Index % U16
       IN IF UsedRingPanics(q.Used, m) \/ AvailableRingPanics(q.Available, n)
          THEN /\ Panic(t)
               /\ UNCHANGED <<q, blk, loc>>
          ELSE /\ blk' = AvailableSetRingIndex(blk, q.Available, n, index)
               /\ q' = [q EXCEPT !.Used.ring[m + 1] = avail,
                                 !.Available.ring[n + 1] = index]
               /\ loc' = [loc EXCEPT !.avail = avail,
                                     !.i = loc.i - 1]
               /\ UNCHANGED <<lock, pc, crashed>>
    /\ UNCHANGED <<probe, pcidev, msix, desc, destroy, dma, region, ret, devLast, pushed, popped, peak>>

\* d.Used.last += used; return
PushEnd(t) ==
    /\ ~crashed
    /\ pc[t] = "push_loop"
    /\ loc.i = 0
    /\ q' = [q EXCEPT !.Used.last = (q.Used.last + loc.used) % U16]
    /\ Return(t, "void")
    /\ UNCHANGED <<probe, pcidev, msix, desc, destroy, dma, blk, region, devLast, pushed, popped, peak, crashed>>

\* ------------------------------------------------------ accessor offsets
\* Push on a queue of the given size, for descriptor index k:
\* off := 8 + index*16
OffsetPushLength(size, k) ==
    /\ ~crashed
    /\ q = ZeroQueue
    /\ k < size
    /\ probe' = [op |-> "Push", size |-> size, arg |-> k,
                 off |-> PushLengthOffset(k)]
    /\ UNCHANGED <<pcidev, msix, desc, destroy, dma, q, blk, region, lock, pc,
                   loc, ret, devLast, pushed, popped, peak, crashed>>

\* Available.Ring and Available.SetRingIndex on a queue of the given size,
\* for ring position n: off := 4 + n*2
OffsetAvailableRing(size, n) ==
    /\ ~crashed
    /\ q = ZeroQueue
    /\ n < size
    /\ probe' = [op |-> "Available.Ring", size |-> size, arg |-> n,
                 off |-> AvailableRingOffset(n)]
    /\ UNCHANGED <<pcidev, msix, desc, destroy, dma, q, blk, region, lock, pc,
                   loc, ret, devLast, pushed, popped, peak, crashed>>

\* Used.Ring on a queue of the given size, for ring position n:
\* off := 4 + n*8
OffsetUsedRing(size, n) ==
    /\ ~crashed
    /\ q = ZeroQueue
    /\ n < size
    /\ probe' = [op |-> "Used.Ring", size |-> size, arg |-> n,
                 off |-> UsedRingOffset(n)]
    /\ UNCHANGED <<pcidev, msix, desc, destroy, dma, q, blk, region, lock, pc,
                   loc, ret, devLast, pushed, popped, peak, crashed>>

\* ----------------------------------------------------------------- MSI-X
\* CapabilityMSIX.Unmarshal: the capability is decoded from the configuration
\* space of device d at register offset off
Unmarshal(control, off) ==
    /\ ~crashed
    /\ q = ZeroQueue
    /\ msix' = [MessageControl |-> control, TableOffset |-> 0,
                PBAOffset |-> 0, device |-> TRUE, off |-> off]
    /\ UNCHANGED <<probe, pcidev, desc, destroy, dma, q, blk, region, lock, pc, loc,
                   ret, devLast, pushed, popped, peak, crashed>>

\* CapabilityMSIX.TableSize: int(msix.MessageControl&0x7ff) + 1
TableSize(c) == (c.MessageControl % 2048) + 1

\* the test of EnableInterrupt for an invalid capability
EnableInterruptInvalidLate(c, n) == n > TableSize(c) + 1 \/ ~c.device
EnableInterruptInvalid(c, n) == n > TableSize(c) \/ ~c.device

\* the 16-byte table entry written by EnableInterrupt: the message address,
\* the message data and a zero vector control word, little-endian
TableEntry(addr, data) == LE(addr, 8) \o LE(data, 4) \o LE(0, 4)

\* dma.NewRegion(table + off, size, false): whether it returns an error
NewRegionErrors == {FALSE, TRUE}

\* CapabilityMSIX.EnableInterrupt: the entry is written at table + 16 * n
\* (entry number n, also when n is outside the table), then bit msixEnable
\* of the register at msix.off is written
EnableInterrupt(n, addr, data) ==
    /\ ~crashed
    /\ q = ZeroQueue
    /\ IF EnableInterruptInvalid(msix, n)
       THEN /\ ret' = "invalid capabilty instance"
            /\ UNCHANGED pcidev
       ELSE \E err \in NewRegionErrors :
               IF err
               THEN /\ ret' = "region error"
                    /\ UNCHANGED pcidev
               ELSE /\ pcidev' = [pcidev EXCEPT
                                    !.table[n] = TableEntry(addr, data),
                                    !.config = @ \cup {<<msix.off, msixEnable>>}]
                    /\ ret' = "nil"
    /\ UNCHANGED <<probe, msix, desc, destroy, dma, q, blk, region, lock, pc, loc,
                   devLast, pushed, popped, peak, crashed>>

\* --------------------------------------------------------------- Destroy
\* the address VirtualQueue.Destroy gives to dma.Release for the queue block
DestroyQueueAddressDriver(d) == d.driver
DestroyQueueAddress(d) == d.desc

\* Destroy, called once on an initialised queue, takes no lock.
\* One iteration of: for _, d := range d.Descriptors { d.Destroy() }
DestroyDescriptor ==
    /\ ~crashed
    /\ \/ destroy.pc = "idle" /\ Initialised
       \/ destroy.pc = "loop"
    /\ LET i == destroy.i
       IN /\ dma' = DmaRelease(dma, DescriptorDestroyAddress(q.Descriptors[i + 1]))
          /\ destroy' = IF i + 1 < Len(q.Descriptors)
                        THEN [pc |-> "loop", i |-> i + 1]
                        ELSE [pc |-> "views", i |-> 0]
    /\ UNCHANGED <<probe, pcidev, msix, desc, q, blk, region, lock, pc, loc, ret, devLast, pushed, popped,
                   peak, crashed>>

\* d.Available.buf = nil; d.Used.buf = nil
DestroyViews ==
    /\ ~crashed
    /\ destroy.pc = "views"
    /\ q' = [q EXCEPT !.Available.buf = NilView, !.Used.buf = NilView]
    /\ destroy' = [destroy EXCEPT !.pc = "block"]
    /\ UNCHANGED <<probe, pcidev, msix, desc, dma, blk, region, lock, pc, loc, ret, devLast, pushed,
                   popped, peak, crashed>>

\* dma.Release(d.desc)
DestroyBlock ==
    /\ ~crashed
    /\ destroy.pc = "block"
    /\ dma' = DmaRelease(dma, DestroyQueueAddress(q))
    /\ destroy' = [destroy EXCEPT !.pc = "done"]
    /\ UNCHANGED <<probe, pcidev, msix, desc, q, blk, region, lock, pc, loc, ret, devLast, pushed, popped,
                   peak, crashed>>

VirtualQueueDestroy == DestroyDescriptor \/ DestroyViews \/ DestroyBlock

\* ---------------------------------------------------------------- device
\* The device works on the block through the three addresses of Address()
\* and the queue size: it reads the Available index and ring, and writes the
\* Used ring and index.
DeviceDriverArea == View(Address[2] - Address[1], Len(blk) - (Address[2] - Address[1]))
DeviceDeviceArea == View(Address[3] - Address[1], Len(blk) - (Address[3] - Address[1]))

\* the Available index the device observes
DeviceAvailableIndex == GetLE(blk, DeviceDriverArea, 2, 2)

\* the descriptor index the device finds at free-running position p
DeviceSlot(p) == GetLE(blk, DeviceDriverArea, 4 + 2 * (p % q.size), 2)

\* the length field of descriptor k in the descriptor table
DeviceDescriptorLength(k) == GetLE(blk, View(0, Len(blk)), 16 * k + 8, 4)

\* the Used index the device has written
DeviceUsedIndex == GetLE(blk, DeviceDeviceArea, 2, 2)

\* The device consumes the next Available entry and completes it: it writes
\* the Used entry (descriptor index, length), then advances the Used index.
DeviceComplete(length) ==
    /\ ~crashed
    /\ Initialised
    /\ DeviceAvailableIndex # devLast
    /\ LET k == DeviceSlot(devLast)
           uidx == DeviceUsedIndex
           entry == PutLE(PutLE(blk, DeviceDeviceArea,
                                4 + 8 * (uidx % q.size), 4, k),
                          DeviceDeviceArea, 8 + 8 * (uidx % q.size), 4, length)
       IN blk' = PutLE(entry, DeviceDeviceArea, 2, 2, (uidx + 1) % U16)
    /\ devLast' = (devLast + 1) % U16
    /\ UNCHANGED <<probe, pcidev, msix, desc, destroy, dma, q, region, lock, pc, loc, ret, pushed, popped, peak, crashed>>

\* the loopback device: it reports the length found in the descriptor
DeviceLoopback ==
    /\ Initialised
    /\ DeviceAvailableIndex # devLast
    /\ DeviceComplete(DeviceDescriptorLength(DeviceSlot(devLast)))

\* ------------------------------------------------- observations of a state
\* the Available index stored in device-visible memory
AvailableIndexDMA == GetLE(blk, q.Available.buf, 2, 2)

\* the Used index stored in device-visible memory
UsedIndexDMA == GetLE(blk, q.Used.buf, 2, 2)

\* the descriptor index that memory mem holds in the Available ring slot of
\* free-running position p
SlotIn(mem, p) == AvailableRing(mem, q.Available, p % q.size)

\* the descriptor index in the Available ring slot of free-running position p
Slot(p) == SlotIn(blk, p)

\* the wire-level length field of descriptor k in memory mem
WireLengthIn(mem, k) == GetLE(mem, q.buf, 16 * k + 8, 4)

\* the wire-level length field of descriptor k
WireLength(k) == WireLengthIn(blk, k)

\* the queue was initialised transmit-style: Init left the Available index 0
TransmitStyle == Initialised /\ q.Descriptors[1].Flags # Write

\* no call is running
Quiescent == lock = 0 /\ ~crashed

\* free-running positions published to the device and not yet completed
PublishedPositions ==
    {(devLast + j) % U16 : j \in 0..(((AvailableIndexDMA - devLast) % U16) - 1)}

\* descriptors the device owns: published and not yet completed
DeviceOwned == {Slot(p) : p \in PublishedPositions}

IsPrefix(s, r) == Len(s) <= Len(r) /\ \A i \in 1..Len(s) : s[i] = r[i]

\* ------------------------------------------------------------------ claims

\* every buffer pushed so far fits a descriptor buffer
PayloadsFit ==
    \A i \in 1..Len(pushed) : Len(pushed[i]) <= q.Descriptors[1].buf.len

\* C1 (as claimed): on a transmit-style queue with the loopback device and
\* fewer than N buffers outstanding at any time, the buffers returned by Pop
\* are the buffers given to Push, in order: nothing lost, duplicated, altered
\* or invented.  (Stated for pushes that fit the descriptor buffers.)
C1_Loopback ==
    (TransmitStyle /\ PayloadsFit /\ peak < q.size) => IsPrefix(popped, pushed)

\* C2 (as claimed): whenever no call is running on a transmit-style queue
\* that stayed within its capacity, the buffers pushed are those returned by
\* Pop plus those in flight (published and not completed, or completed and
\* not yet consumed), and every completion consumed was returned by a Pop.
InFlight ==
    ((AvailableIndexDMA - devLast) % U16) + ((UsedIndexDMA - q.Used.last) % U16)

C2_Conservation ==
    (TransmitStyle /\ Quiescent /\ peak < q.size) =>
        /\ Len(pushed) = Len(popped) + InFlight
        /\ q.Used.last = Len(popped) % U16

\* C3 (as claimed): while fewer than N entries are at the device, Push never
\* selects a descriptor the device owns for writing, and neither Push nor Pop
\* is about to advance the Available index over a slot that names a
\* descriptor the device already owns.
C3_ExclusiveOwnership ==
    (Initialised /\ ~crashed /\ Cardinality(PublishedPositions) < q.size) =>
        \A t \in Callers :
            /\ pc[t] \in {"push_length", "push_write", "push_index"}
                  => loc.index \notin DeviceOwned
            /\ pc[t] \in {"push_index", "pop_index"}
                  => Slot(AvailableIndexDMA) \notin DeviceOwned

\* C4: a Pop that finds the Used index equal to lastSeen returns the empty
\* result at once (no lock kept, no panic) and leaves the Available index,
\* every Available ring slot, lastSeen, every descriptor length and every
\* descriptor buffer as they were.
PopOnEmpty(t) ==
    /\ PopBegin(t)
    /\ Initialised
    /\ UsedIndexDMA = q.Used.last

C4_PopEmpty ==
    [][\A t \in Callers : PopOnEmpty(t) =>
          /\ ret' = "nil" /\ lock' = 0 /\ pc'[t] = "idle" /\ ~crashed'
          /\ AvailableIndexDMA' = AvailableIndexDMA
          /\ q'.Available.index = q.Available.index
          /\ \A n \in 0..(q.size - 1) : Slot(n)' = Slot(n)
          /\ q'.Used.last = q.Used.last
          /\ \A k \in 0..(q.size - 1) : WireLength(k)' = WireLength(k)
          /\ q'.Descriptors = q.Descriptors
          /\ region' = region
          /\ popped' = popped]_vars

\* C4 witness: a Pop on an initialised queue has returned the empty result
C4_Witness == Initialised /\ ret = "nil" /\ Quiescent

\* the step of Pop that reads the Used entry and copies the buffer out
PopReads(t) == pc[t] = "pop_read" /\ pc'[t] = "pop_ring"

\* the step with which a Pop that found a completion returns
PopReturns(t) == pc[t] = "pop_index" /\ pc'[t] = "idle"

\* the Used entry at ring position lastSeen mod N
PendingEntry == UsedRing(blk, q.Used, q.Used.last % q.size)

\* the DMA buffer of descriptor k in memory mem
BufferIn(mem, k) ==
    LET view == q.Descriptors[k + 1].buf
    IN [i \in 1..view.len |-> mem[view.off + i]]

\* the DMA buffer of descriptor k
Buffer(k) == BufferIn(region, k)

\* C5 (as claimed): a Pop that finds a completion reads the Used entry
\* (k, len) at position lastSeen mod N, returns exactly len bytes which are
\* the first len bytes of descriptor k's buffer, and advances lastSeen by 1.
C5_PopResult ==
    [][\A t \in Callers :
          /\ PopReads(t) =>
                /\ loc'.avail = PendingEntry
                /\ Len(loc'.out) = PendingEntry.Length
                /\ \A i \in 1..PendingEntry.Length :
                      /\ i <= Len(Buffer(PendingEntry.Index))
                      /\ loc'.out[i] = Buffer(PendingEntry.Index)[i]
          /\ PopReturns(t) =>
                /\ popped' = Append(popped, loc.out)
                /\ ret' = "buf"
                /\ q'.Used.last = (q.Used.last + 1) % U16]_vars

\* the step with which Push writes the advanced Available index
PushPublishes(t) == pc[t] = "push_index" /\ pc'[t] = "push_loop"

\* the step with which Pop writes the advanced Available index
PopPublishes(t) == pc[t] = "pop_index" /\ pc'[t] = "idle"

\* C6 (as claimed): when Push or Pop writes the advanced Available index,
\* the entry this publishes (the slot at the position the old index named)
\* holds the descriptor of the operation, for Push with its length field and
\* payload written, and the operation has no ring slot left to write.
\* (Stated for transmit-style queues.)
C6_WriteOrdering ==
    [][TransmitStyle => \A t \in Callers :
          /\ PushPublishes(t) =>
                /\ SlotIn(blk', AvailableIndexDMA) = loc.index
                /\ WireLengthIn(blk', loc.index) = Len(loc.buf)
                /\ \A i \in 1..Min(Len(loc.buf), Len(Buffer(loc.index))) :
                      BufferIn(region', loc.index)[i] = loc.buf[i]
                /\ loc'.i = 0
          /\ PopPublishes(t) =>
                SlotIn(blk', AvailableIndexDMA) = loc.avail.Index]_vars

\* the ring is at capacity: (availableIndex - usedIndex) mod 65536 >= N
RingFull == ((q.Available.index - UsedIndexDMA) % U16) >= q.size

\* a call of Push
PushCalled(t) == pc[t] = "idle" /\ pushed' # pushed

\* C7 (as claimed): a Push called while the ring is at capacity is detected:
\* it returns at once reporting the condition and writes neither a
\* descriptor length nor a descriptor buffer.  (Stated for transmit-style
\* queues, where every published entry was pushed.)
C7_RingFull ==
    [][\A t \in Callers : (PushCalled(t) /\ TransmitStyle /\ RingFull) =>
          /\ pc'[t] = "idle" /\ lock' = 0
          /\ ret' = "capacity exceeded"
          /\ blk' = blk /\ region' = region]_vars

\* the state Init leaves behind: no Push, no completed Pop, no device step
AfterInit ==
    /\ Initialised /\ Quiescent
    /\ pushed = <<>> /\ popped = <<>> /\ devLast = 0

\* C8: after Init(N, L, flags) the block the device sees holds the values
\* 0..N-1 in Available ring slots 0..N-1, a Used index of 0 with lastSeen 0,
\* and an Available index of N when flags is Write and of 0 otherwise.
C8_InitPrefill ==
    AfterInit =>
        /\ \A n \in 0..(q.size - 1) : DeviceSlot(n) = n
        /\ DeviceUsedIndex = 0
        /\ q.Used.last = 0
        /\ DeviceAvailableIndex =
              IF q.Descriptors[1].Flags = Write THEN q.size ELSE 0
        /\ q.Available.index = DeviceAvailableIndex

\* C8 witness: a receive-style queue of more than one descriptor after Init
C8_Witness ==
    AfterInit /\ q.size > 1 /\ q.Descriptors[1].Flags = Write

\* the smallest multiple of 4 that is >= n
RoundUp4(n) == CHOOSE m \in n..(n + 3) : m % 4 = 0

\* C9: the layout of Init puts the descriptor table at offset 0, the driver
\* area at offset 16*N and the device area at the smallest multiple of 4 that
\* is >= 16*N + 4 + 2*N + 2; Address() is the block's base plus these
\* offsets, the device area offset is a multiple of 4, and the Used ring
\* (4 + 8*N + 2 bytes) ends the block.
C9_Layout ==
    Initialised =>
        /\ Address[1] = BlockBase
        /\ Address[2] = BlockBase + 16 * q.size
        /\ Address[3] = BlockBase + RoundUp4(16 * q.size + 4 + 2 * q.size + 2)
        /\ (Address[3] - Address[1]) % 4 = 0
        /\ Len(blk) = (Address[3] - Address[1]) + 4 + 8 * q.size + 2
        /\ q.Available.buf.off = Address[2] - Address[1]
        /\ q.Used.buf.off = Address[3] - Address[1]
        /\ \A k \in 0..(q.size - 1) :
              GetLE(blk, q.buf, 16 * k, 8) = q.Descriptors[k + 1].Address

\* C9 witness: an initialised queue whose Available ring needs padding
C9_Witness ==
    Initialised /\ (16 * q.size + 4 + 2 * q.size + 2) % 4 # 0

\* free-running values of the Used index not yet consumed by the driver
PendingCounters(t) ==
    {(q.Used.last + j) % U16 : j \in 0..(loc.used - 1)}

\* C10 (as claimed): every ring slot Push or Pop accesses is addressed at
\* (free-running counter mod N), inside [0, N): the Used entry Pop reads at
\* lastSeen mod N, the Available slots at the Available index mod N, and each
\* Used entry the loop of Push reads at (a pending Used counter) mod N.
\* (Stated for transmit-style queues within their capacity.)
C10_RingPositions ==
    (TransmitStyle /\ ~crashed /\ peak < q.size /\ loc.used <= q.size) =>
        \A t \in Callers :
            /\ pc[t] = "pop_read" =>
                  PopUsedPosition(q) = q.Used.last % q.size
            /\ pc[t] = "pop_ring" =>
                  PopAvailablePosition(q) = q.Available.index % q.size
            /\ (pc[t] = "push_loop" /\ loc.i > 0) =>
                  /\ PushRecyclePosition(q) = q.Available.index % q.size
                  /\ PushUsedPosition(q, loc.i) \in 0..(q.size - 1)
                  /\ \E c \in PendingCounters(t) :
                        PushUsedPosition(q, loc.i) = c % q.size

\* caller t is inside Push or Pop
InCall(t) == pc[t] \notin {"idle", "panic"}

\* C11: Push and Pop run entirely while holding the queue's lock and release
\* it on return (also when they panic): at most one caller is inside a call,
\* the lock names that caller, and the lock is free when no call is running;
\* Init starts only with the lock free and runs to its end before any other
\* call starts.
C11_LockSerialisation ==
    /\ \A t1, t2 \in Callers : (InCall(t1) /\ InCall(t2)) => t1 = t2
    /\ \A t \in Callers : InCall(t) <=> lock = t
    /\ lock \in Callers \cup {0}

\* C11 witness: a caller is inside Push, holding the lock, after a Pop
\* has returned a buffer
C11_Witness ==
    \E t \in Callers : pc[t] = "push_write" /\ lock = t /\ popped # <<>>

\* C12: once Destroy has run to its end on an initialised queue, the region
\* of the descriptor buffers and the queue block have been released (no
\* allocation of Init is reserved and the allocator has its bytes back) and
\* the Available and Used byte-views are cleared.
C12_DestroyReleases ==
    destroy.pc = "done" =>
        /\ ~RegionReserved /\ ~BlockReserved
        /\ dma.used = {}
        /\ dma.free \in Capacities
        /\ q.Available.buf = NilView
        /\ q.Used.buf = NilView

\* C12 witness: Destroy has run to its end on a queue of two descriptors,
\* the second of which starts no allocation of its own
C12_Witness ==
    destroy.pc = "done" /\ Len(q.Descriptors) = 2 /\ ~crashed

\* C13 (as claimed): when a DMA reservation of Init fails, Init leaves no
\* partially initialised queue: no descriptors, no ring views, no size and
\* no physical addresses are recorded, and Address() yields no address.
C13_InitExhaustion ==
    dma.failed =>
        /\ q.Descriptors = <<>>
        /\ q.Available.ring = <<>> /\ q.Used.ring = <<>>
        /\ q.Available.buf = NilView /\ q.Used.buf = NilView
        /\ q.size = 0
        /\ Address = <<0, 0, 0>>

\* a call of Descriptor.Init with a buffer that is not DMA memory
InitUnbound ==
    \E off \in 0..MaxLength, length \in 1..MaxLength, flags \in InitFlags :
        DescriptorInitCall(FALSE, off, length, flags)

\* a call of Descriptor.Init with a reserved buffer buf[off:off+length]
InitBound(off, length, flags) == DescriptorInitCall(TRUE, off, length, flags)

\* C14 (as claimed): Descriptor.Init with a buffer that was not obtained
\* from the DMA allocator reports the unbound buffer to its caller and
\* leaves the descriptor as it was; with a reserved buffer it records the
\* buffer's physical address and its length.
C14_UnboundBuffer ==
    [][/\ InitUnbound => (ret' = "unbound buffer" /\ desc' = desc)
       /\ \A off \in 0..MaxLength, length \in 1..MaxLength,
             flags \in InitFlags :
             InitBound(off, length, flags) =>
                /\ desc'.Address = RegionBase + off
                /\ desc'.length = length
                /\ desc'.buf = View(off, length)]_vars

\* a call of EnableInterrupt with an entry number beyond the table size, or
\* on a capability that is not bound to a device
EnableInterruptBeyond ==
    \E n \in EntryNumbers, addr \in MessageAddresses, data \in MessageData :
        /\ EnableInterrupt(n, addr, data)
        /\ (n > TableSize(msix) \/ ~msix.device)

\* C15: EnableInterrupt with an entry number greater than the table size,
\* or on a capability not bound to a device, returns the invalid-capability
\* error and writes no table entry and no configuration register.
C15_InvalidCapability ==
    [][EnableInterruptBeyond =>
          /\ ret' = "invalid capabilty instance"
          /\ pcidev' = pcidev
          /\ msix' = msix]_vars

\* C15 witness: the error was returned by a capability bound to a device
\* with a table of 4 entries (the entry number was 5), after an entry of the
\* table was written
C15_Witness ==
    /\ ret = "invalid capabilty instance"
    /\ msix.device /\ TableSize(msix) = 4
    /\ pcidev.table[0] # <<>>

\* C16 (as claimed): a Pop that consumed the Used entry of descriptor k while
\* the Available index was a leaves the Available index a+1 (modulo 65536)
\* and the Available ring slot at position a mod N, which the advance newly
\* exposes to the device, holding k.  (Stated for transmit-style queues.)
C16_PopRecycling ==
    [][TransmitStyle => \A t \in Callers :
          /\ PopReads(t) =>
                q'.Available.index = (q.Available.index + 1) % U16
          /\ PopReturns(t) =>
                /\ AvailableIndexDMA' = (AvailableIndexDMA + 1) % U16
                /\ AvailableIndexDMA' = q.Available.index
                /\ SlotIn(blk', AvailableIndexDMA) = loc.avail.Index]_vars

\* the step with which Push selects its descriptor
PushClaims(t) == pc[t] = "idle" /\ pc'[t] = "push_length"

\* the step with which Push writes the wire-level length field
PushWritesLength(t) == pc[t] = "push_length" /\ pc'[t] = "push_write"

\* the step with which Push copies the payload into the DMA buffer
PushCopies(t) == pc[t] = "push_write" /\ pc'[t] = "push_index"

\* the descriptors other than the one Push selected
OtherDescriptors == (0..(q.size - 1)) \ {loc.index}

\* C17 (as claimed): Push(b) called with Available index a selects the
\* descriptor k held in Available ring slot a mod N, writes len(b) into k's
\* wire-level length field, copies b into k's DMA buffer and advances the
\* Available index to a+1 (modulo 65536); the length field and the buffer of
\* every other descriptor stay as they were.  (Stated for transmit-style
\* queues and pushes that fit the descriptor buffers.)
C17_PushClaimWrite ==
    [][(TransmitStyle /\ PayloadsFit') => \A t \in Callers :
          /\ PushClaims(t) =>
                /\ loc'.index = Slot(q.Available.index)
                /\ loc'.buf = pushed'[Len(pushed')]
          /\ PushWritesLength(t) =>
                /\ WireLengthIn(blk', loc.index) = Len(loc.buf)
                /\ \A k \in OtherDescriptors :
                      WireLengthIn(blk', k) = WireLength(k)
                /\ region' = region
          /\ PushCopies(t) =>
                /\ \A i \in 1..Len(loc.buf) :
                      BufferIn(region', loc.index)[i] = loc.buf[i]
                /\ q'.Descriptors[loc.index + 1].length = Len(loc.buf)
                /\ \A k \in OtherDescriptors :
                      /\ BufferIn(region', k) = Buffer(k)
                      /\ q'.Descriptors[k + 1].length =
                            q.Descriptors[k + 1].length
                      /\ WireLengthIn(blk', k) = WireLength(k)
          /\ PushPublishes(t) =>
                /\ q'.Available.index = (q.Available.index + 1) % U16
                /\ AvailableIndexDMA' = q'.Available.index]_vars

\* the step with which Push returns
PushReturns(t) == pc[t] = "push_loop" /\ pc'[t] = "idle"

\* the descriptor index of the j-th pending completion: the Used entry at
\* ring position (lastSeen + j) mod N
PendingIndex(j) ==
    UsedRing(blk, q.Used, ((q.Used.last + j) % U16) % q.size).Index

\* the orders in which p pending completions can be re-published
Orders(p) ==
    {f \in [0..(p - 1) -> 0..(p - 1)] :
        \A i, j \in 0..(p - 1) : f[i] = f[j] => i = j}

\* C18 (as claimed): a Push called with p pending completions, 0 <= p <= N,
\* leaves lastSeen equal to the Used index read at the start of the call
\* (advanced by exactly p), and each of the p descriptor indices in Used
\* positions lastSeen mod N .. (usedIndex - 1) mod N in an Available ring
\* slot of its own among the p slots after the pushed entry.  (Stated for
\* transmit-style queues.)
C18_PushRecycling ==
    [][(TransmitStyle /\ loc.used <= q.size) => \A t \in Callers :
          PushReturns(t) =>
              /\ q'.Used.last = q.Used.index
              /\ q'.Used.last = (q.Used.last + loc.used) % U16
              /\ \E f \in Orders(loc.used) : \A j \in 0..(loc.used - 1) :
                    SlotIn(blk', (q.Available.index + j) % U16)
                        = PendingIndex(f[j])]_vars

\* the byte positions of the region that descriptor k's buffer covers
BufferRange(k) ==
    LET view == q.Descriptors[k + 1].buf
    IN {view.off + i : i \in 0..(view.len - 1)}

\* C19 (as claimed): after Init(N, L, flags) there are exactly N descriptors,
\* and descriptor i is bound to the L bytes [i*L, (i+1)*L) of the one region
\* of N*L bytes, with recorded length L until a Push rewrites it, so the
\* buffers of distinct descriptors are pairwise disjoint.
C19_InitSlicing ==
    Initialised =>
        LET L == q.Descriptors[1].buf.len
        IN /\ Len(q.Descriptors) = q.size
           /\ Len(region) = q.size * L
           /\ \A i \in 0..(q.size - 1) :
                 /\ q.Descriptors[i + 1].buf = View(i * L, L)
                 /\ q.Descriptors[i + 1].Address = RegionBase + i * L
                 /\ pushed = <<>> => q.Descriptors[i + 1].length = L
           /\ \A i, j \in 0..(q.size - 1) :
                 i # j => BufferRange(i) \cap BufferRange(j) = {}

\* descriptor indices listed in the Available ring
Listed == {Slot(n) : n \in 0..(q.size - 1)}

\* descriptor indices referenced by Used entries the driver has not consumed
Completed ==
    {PendingIndex(j) : j \in 0..(((UsedIndexDMA - q.Used.last) % U16) - 1)}

\* C21 (as claimed): whenever no call is running on a transmit-style queue
\* that stayed within its capacity, every Available ring slot holds an index
\* in [0, N), and every descriptor index in [0, N) is listed in an Available
\* ring slot or referenced by a Used entry not yet consumed by the driver.
C21_Circulation ==
    (TransmitStyle /\ Quiescent /\ peak < q.size) =>
        /\ \A n \in 0..(q.size - 1) : Slot(n) \in 0..(q.size - 1)
        /\ \A k \in 0..(q.size - 1) : k \in Listed \cup Completed

\* C22 (as claimed): for every queue size N up to 32768, every descriptor
\* index k and every ring position n in [0, N), Push writes the length at
\* byte offset 16*k + 8, Used.Ring decodes at byte offset 4 + 8*n and the
\* Available ring accessors use byte offset 4 + 2*n: no offset is reduced
\* modulo 2^16.
C22_OffsetsNoWrap ==
    (probe.size <= MaxCapacity /\ probe.arg < probe.size) =>
        /\ probe.op = "Push" => probe.off = 16 * probe.arg + 8
        /\ probe.op = "Used.Ring" => probe.off = 4 + 8 * probe.arg
        /\ probe.op = "Available.Ring" => probe.off = 4 + 2 * probe.arg

\* C23 (as claimed): after any Push(b), also one with len(b) greater than
\* the buffer length given to Init, the wire-level length field of the
\* claimed descriptor does not exceed the size of that descriptor's DMA
\* buffer.  (Stated for transmit-style queues, for every descriptor.)
C23_LengthFits ==
    (TransmitStyle /\ ~crashed) =>
        \A k \in 0..(q.size - 1) :
            WireLength(k) <= q.Descriptors[k + 1].buf.len

\* a call of EnableInterrupt with an entry number outside [0, TableSize())
EnableInterruptOutside ==
    \E n \in EntryNumbers, addr \in MessageAddresses, data \in MessageData :
        /\ EnableInterrupt(n, addr, data)
        /\ ~(0 <= n /\ n < TableSize(msix))

\* C24 (as claimed): EnableInterrupt(n, addr, data) writes a table entry and
\* the enable bit only when 0 <= n < TableSize(); for n = TableSize() and
\* for negative n it writes no table entry and no configuration register.
C24_EntryRange ==
    [][EnableInterruptOutside => pcidev' = pcidev]_vars

\* C20 (as claimed): no step of Push or Pop reads or writes a descriptor
\* buffer after Destroy has released the region of the buffers, and none
\* reads or writes the queue block after Destroy has released it.
C20_BuffersOutlive ==
    [][\A t \in Callers :
          /\ (/\ pc[t] \in {"push_write", "pop_read"}
              /\ pc'[t] # pc[t] /\ ~crashed') => RegionReserved
          /\ (/\ pc[t] \in {"push_length", "push_index", "push_loop",
                             "pop_read", "pop_ring", "pop_index"}
              /\ (pc'[t] # pc[t] \/ loc' # loc) /\ ~crashed')
                => BlockReserved]_vars

\* --------------------------------------------------------- specifications
Driver ==
    \/ \E size \in Sizes, length \in Lengths, flags \in InitFlags :
          VirtualQueueInit(size, length, flags)
    \/ \E t \in Callers : PopBegin(t)
    \/ \E t \in Callers : PopRead(t)
    \/ \E t \in Callers : PopSetRingIndex(t)
    \/ \E t \in Callers : PopSetIndex(t)
    \/ \E t \in Callers, b \in Payloads : PushBegin(t, b)
    \/ \E t \in Callers : PushLength(t)
    \/ \E t \in Callers : PushWrite(t)
    \/ \E t \in Callers : PushSetIndex(t)
    \/ \E t \in Callers : PushRecycle(t)
    \/ \E t \in Callers : PushEnd(t)

Next == Driver \/ DeviceLoopback

Spec == Init /\ [][Next]_vars
\* the byte offsets computed by Push and the ring accessors
NextOffsets ==
    \E size \in {MaxCapacity \div 8, MaxCapacity}, n \in Positions :
        \/ OffsetPushLength(size, n)
        \/ OffsetAvailableRing(size, n)
        \/ OffsetUsedRing(size, n)

SpecOffsets == Init /\ [][NextOffsets]_vars

\* the MSI-X capability of a device
NextMSIX ==
    \/ \E control \in MessageControls, off \in {64} : Unmarshal(control, off)
    \/ \E n \in EntryNumbers, addr \in MessageAddresses, data \in MessageData :
          EnableInterrupt(n, addr, data)

SpecMSIX == Init /\ [][NextMSIX]_vars

\* a descriptor used on its own
NextDescriptor ==
    \/ \E n \in 1..(MaxLength + 1) : ReserveBuffer(n)
    \/ \E res \in BOOLEAN, off \in 0..MaxLength, length \in 1..MaxLength,
          flags \in InitFlags : DescriptorInitCall(res, off, length, flags)
    \/ \E b \in Payloads : DescriptorWriteCall(b)
    \/ \E n \in {1, MaxLength + 1} : DescriptorReadCall(n)
    \/ DescriptorDestroyCall

SpecDescriptor == Init /\ [][NextDescriptor]_vars

\* the queue with a caller of Destroy
NextDestroy == Next \/ VirtualQueueDestroy

SpecDestroy == Init /\ [][NextDestroy]_vars
====
